---- MODULE Spec2Model ----
(***************************************************************************)
(* Model of the RainFall logger (rain_app.py) and of its migration tool    *)
(* (Version 2/migrate_add_moisture.py).                                    *)
(*                                                                         *)
(* Numbers.  The program computes with floats and stores moisture as a     *)
(* string with two fractional digits.  Here a millimetre value is an exact *)
(* integer number of units, Scale units making one hundredth of a          *)
(* millimetre; Scale is a multiple of every period the model can set, so   *)
(* threshold / period_days is exact, and it is odd, so no value lies       *)
(* half-way between two hundredths and "%.2f" has one outcome.  A stored   *)
(* Moisture string "x.yz" is the integer number of hundredths.             *)
(* Dates are day numbers; Today is the clock's date.                       *)
(***************************************************************************)
EXTENDS Integers, Sequences, FiniteSets, TLC

\* ---------------------------------------------------------------- bounds
MaxDate == 3
MaxOps == 5

\* ------------------------------------------------------------- numbers
Scale == 5 * 5 * 7
Mm(h) == h * Scale

DefaultThreshold == Mm(1000)
DefaultPeriod == 7
FallbackThreshold == Mm(2000)
FallbackPeriod == 5
MigThreshold == Mm(1000)
MigPeriod == 7

Today == MaxDate
Dates == 1..MaxDate

\* A raw text field: blank, text that float()/int() rejects, or a number.
Blank == [k |-> "blank", v |-> 0]
Bad == [k |-> "bad", v |-> 0]
Num(n) == [k |-> "num", v |-> n]

\* float(s) succeeds
FloatOk(s) == s.k = "num"

\* f"{m:.2f}": the nearest hundredth (Scale is odd: no ties)
Fmt2(m) == (2 * m + Scale) \div (2 * Scale)

\* float(rec["Moisture"])
FloatOfMoisture(h) == Mm(h)

Max2(a, b) == IF a >= b THEN a ELSE b

\* _effective_mm's result: None or a float
NoneEff == [ok |-> FALSE, v |-> 0]
Valid(n) == [ok |-> TRUE, v |-> n]

\* records, settings and the two entries are the program's state; lastOp,
\* lastDate, lastOut and repeated observe the last operation (its name, its
\* date argument, what it found or produced, and whether it repeats the
\* operation before it); nops counts operations; eng holds the inputs and
\* the result of a pure function.
\* dash is what _update_dashboard last derived for its labels.
VARIABLES records, settings, entry_threshold, entry_period, dash,
          lastOp, lastDate, lastOut, repeated, nops, eng

vars == <<records, settings, entry_threshold, entry_period, dash,
          lastOp, lastDate, lastOut, repeated, nops, eng>>

appvars == <<records, settings, entry_threshold, entry_period, dash>>

\* ------------------------------------------------------ pure functions
\* variant: any number in Rain_mm is taken, as the form handler's eff_today
effective_mm_any_rain(rec) ==
    IF FloatOk(rec.Rain_mm) THEN Valid(rec.Rain_mm.v)
    ELSE IF FloatOk(rec.BOM_mm) /\ rec.BOM_mm.v >= 0 THEN Valid(rec.BOM_mm.v)
    ELSE NoneEff

effective_mm(rec) ==
    IF FloatOk(rec.Rain_mm) /\ rec.Rain_mm.v >= 0 THEN Valid(rec.Rain_mm.v)
    ELSE IF FloatOk(rec.BOM_mm) /\ rec.BOM_mm.v >= 0 THEN Valid(rec.BOM_mm.v)
    ELSE NoneEff

\* variant: no floor at 0 after the decay
compute_daily_moisture_nofloor(prev_moisture, eff_rain, st) ==
    LET threshold == st.threshold_mm
        period_days == IF st.period_days <= 0 THEN FallbackPeriod
                       ELSE st.period_days
        decay == threshold \div period_days
        m1 == prev_moisture - decay
        m2 == IF eff_rain.ok THEN m1 + eff_rain.v ELSE m1
    IN  IF m2 > threshold THEN threshold ELSE m2

\* variant: no cap at threshold
compute_daily_moisture_nocap(prev_moisture, eff_rain, st) ==
    LET threshold == st.threshold_mm
        period_days == IF st.period_days <= 0 THEN FallbackPeriod
                       ELSE st.period_days
        decay == threshold \div period_days
        m1 == Max2(0, prev_moisture - decay)
    IN  IF eff_rain.ok THEN m1 + eff_rain.v ELSE m1

compute_daily_moisture(prev_moisture, eff_rain, st) ==
    LET threshold == st.threshold_mm
        period_days == IF st.period_days <= 0 THEN FallbackPeriod
                       ELSE st.period_days
        decay == threshold \div period_days
        m1 == Max2(0, prev_moisture - decay)
        m2 == IF eff_rain.ok THEN m1 + eff_rain.v ELSE m1
    IN  IF m2 > threshold THEN threshold ELSE m2

\* list.sort(key=date) is stable: a record goes after those not later
RECURSIVE InsertByDate(_, _)
InsertByDate(s, r) ==
    IF s = <<>> THEN <<r>>
    ELSE IF Head(s).Date <= r.Date THEN <<Head(s)>> \o InsertByDate(Tail(s), r)
    ELSE <<r>> \o s

\* variant: the list is left in the order it has
sort_records_asis(s) == s

RECURSIVE sort_records(_)
sort_records(s) ==
    IF s = <<>> THEN <<>>
    ELSE InsertByDate(sort_records(SubSeq(s, 1, Len(s) - 1)), s[Len(s)])

\* index of the first record with that date, 0 if none
FirstIndex(recs, d) ==
    IF \E i \in 1..Len(recs) : recs[i].Date = d
    THEN CHOOSE i \in 1..Len(recs) :
            /\ recs[i].Date = d
            /\ \A j \in 1..(i - 1) : recs[j].Date # d
    ELSE 0

\* variant: the watered flag is not looked at
WalkMoistureNoReset(rec, prev_moisture, st) ==
    compute_daily_moisture(prev_moisture, effective_mm(rec), st)

\* one iteration of the walk: the float computed for record rec
WalkMoisture(rec, prev_moisture, st) ==
    IF rec.Watered = "Yes" THEN st.threshold_mm
    ELSE compute_daily_moisture(prev_moisture, effective_mm(rec), st)

\* variant: range(start_idx, len - 1), the last record is not visited
RECURSIVE RecomputeLoopShort(_, _, _, _)
RecomputeLoopShort(recs, i, prev_moisture, st) ==
    IF i >= Len(recs) THEN recs
    ELSE LET moisture == WalkMoisture(recs[i], prev_moisture, st)
         IN  RecomputeLoopShort([recs EXCEPT ![i].Moisture = Fmt2(moisture)],
                                i + 1, moisture, st)

RECURSIVE RecomputeLoop(_, _, _, _)
RecomputeLoop(recs, i, prev_moisture, st) ==
    IF i > Len(recs) THEN recs
    ELSE LET moisture == WalkMoisture(recs[i], prev_moisture, st)
         IN  RecomputeLoop([recs EXCEPT ![i].Moisture = Fmt2(moisture)],
                           i + 1, moisture, st)

\* variant: the previous moisture is that of calendar day start_date - 1
recompute_from_yesterday(recs0, start_date, st) ==
    LET recs == sort_records(recs0)
        start_idx == FirstIndex(recs, start_date)
        yi == FirstIndex(recs, start_date - 1)
    IN  IF start_idx = 0 THEN recs
        ELSE RecomputeLoop(recs, start_idx,
                           IF yi = 0 THEN 0
                           ELSE FloatOfMoisture(recs[yi].Moisture), st)

\* variant: the walk always starts at the first record
recompute_from_start(recs0, start_date, st) ==
    LET recs == sort_records(recs0)
    IN  IF FirstIndex(recs, start_date) = 0 THEN recs
        ELSE RecomputeLoop(recs, 1, 0, st)

\* variant: the previous moisture is read from records[start_idx]
recompute_from_self(recs0, start_date, st) ==
    LET recs == sort_records(recs0)
        start_idx == FirstIndex(recs, start_date)
    IN  IF start_idx = 0 THEN recs
        ELSE RecomputeLoop(recs, start_idx,
                           FloatOfMoisture(recs[start_idx].Moisture), st)

\* variant: a date that is not found starts the walk at the first record
recompute_from_default_start(recs0, start_date, st) ==
    LET recs == sort_records(recs0)
        start_idx == FirstIndex(recs, start_date)
    IN  IF start_idx = 0 THEN RecomputeLoop(recs, 1, 0, st)
        ELSE LET prev_moisture ==
                    IF start_idx = 1 THEN 0
                    ELSE FloatOfMoisture(recs[start_idx - 1].Moisture)
             IN  RecomputeLoop(recs, start_idx, prev_moisture, st)

recompute_from(recs0, start_date, st) ==
    LET recs == sort_records(recs0)
        start_idx == FirstIndex(recs, start_date)
    IN  IF start_idx = 0 THEN recs
        ELSE LET prev_moisture ==
                    IF start_idx = 1 THEN 0
                    ELSE FloatOfMoisture(recs[start_idx - 1].Moisture)
             IN  RecomputeLoop(recs, start_idx, prev_moisture, st)

\* ------------------------------------------------------ migration tool
mig_effective_mm(rec) ==
    IF FloatOk(rec.Rain_mm) /\ rec.Rain_mm.v >= 0 THEN rec.Rain_mm.v
    ELSE IF FloatOk(rec.BOM_mm) /\ rec.BOM_mm.v >= 0 THEN rec.BOM_mm.v
    ELSE 0

\* variant: the decayed moisture is not floored at 0
MigMoistureNoFloor(rec, prev_moisture) ==
    IF rec.Watered = "Yes" THEN MigThreshold
    ELSE LET m == prev_moisture - (MigThreshold \div MigPeriod)
                  + mig_effective_mm(rec)
         IN  IF m > MigThreshold THEN MigThreshold ELSE m

MigMoisture(rec, prev_moisture) ==
    IF rec.Watered = "Yes" THEN MigThreshold
    ELSE LET m == Max2(0, prev_moisture - (MigThreshold \div MigPeriod))
                  + mig_effective_mm(rec)
         IN  IF m > MigThreshold THEN MigThreshold ELSE m

RECURSIVE MigrateLoop(_, _, _)
MigrateLoop(recs, i, prev_moisture) ==
    IF i > Len(recs) THEN recs
    ELSE LET moisture == MigMoisture(recs[i], prev_moisture)
         IN  MigrateLoop([recs EXCEPT ![i].Moisture = Fmt2(moisture)],
                         i + 1, moisture)

migrate(recs) == MigrateLoop(recs, 1, 0)

\* ----------------------------------------------------------- dashboard
\* _update_dashboard, settings part: what the two entries are read as
DashThreshold(et) == IF FloatOk(et) THEN et.v ELSE FallbackThreshold
DashThresholdEntry(et) == IF FloatOk(et) THEN et ELSE Num(FallbackThreshold)
DashPeriod(ep) ==
    IF ep.k = "num" THEN (IF ep.v <= 0 THEN FallbackPeriod ELSE ep.v)
    ELSE FallbackPeriod
DashPeriodEntry(ep) == IF ep.k = "num" THEN ep ELSE Num(FallbackPeriod)

\* a Date string that strptime rejects; _sort_records keys it as date.min
BadDate == 0
DateOk(d) == d # BadDate

\* an optional date: <<>> is None
NoDate == <<>>
SomeDate(d) == <<d>>
Later(d, last) == last = NoDate \/ d > last[1]

\* variant: any readable rainfall, 0 included, counts as a rain day
RECURSIVE DashDatesLoopAnyRain(_, _, _, _)
DashDatesLoopAnyRain(recs, i, last_rain_date, last_watering_date) ==
    IF i > Len(recs)
    THEN [rain |-> last_rain_date, watering |-> last_watering_date]
    ELSE IF ~DateOk(recs[i].Date)
    THEN DashDatesLoopAnyRain(recs, i + 1, last_rain_date, last_watering_date)
    ELSE LET d_obj == recs[i].Date
             eff == effective_mm(recs[i])
             lr == IF eff.ok /\ Later(d_obj, last_rain_date)
                   THEN SomeDate(d_obj) ELSE last_rain_date
             lw == IF recs[i].Watered = "Yes" /\ Later(d_obj, last_watering_date)
                   THEN SomeDate(d_obj) ELSE last_watering_date
         IN  DashDatesLoopAnyRain(recs, i + 1, lr, lw)

\* the loop over the records for the last rainfall and last watering dates
RECURSIVE DashDatesLoop(_, _, _, _)
DashDatesLoop(recs, i, last_rain_date, last_watering_date) ==
    IF i > Len(recs)
    THEN [rain |-> last_rain_date, watering |-> last_watering_date]
    ELSE IF ~DateOk(recs[i].Date)
    THEN DashDatesLoop(recs, i + 1, last_rain_date, last_watering_date)
    ELSE LET d_obj == recs[i].Date
             eff == effective_mm(recs[i])
             lr == IF eff.ok /\ eff.v > 0 /\ Later(d_obj, last_rain_date)
                   THEN SomeDate(d_obj) ELSE last_rain_date
             lw == IF recs[i].Watered = "Yes" /\ Later(d_obj, last_watering_date)
                   THEN SomeDate(d_obj) ELSE last_watering_date
         IN  DashDatesLoop(recs, i + 1, lr, lw)

\* variant: the list's first record is read
DashBalanceFirst(recs) ==
    IF recs # <<>> THEN FloatOfMoisture(recs[1].Moisture) ELSE 0

\* the stored moisture of the list's last record, 0.0 for an empty list
DashBalance(recs) ==
    IF recs # <<>> THEN FloatOfMoisture(recs[Len(recs)].Moisture) ELSE 0

SetMin(S) == CHOOSE x \in S : \A y \in S : x <= y
SetMax(S) == CHOOSE x \in S : \A y \in S : x >= y

\* the days from d to last that are not in existing, in order
RECURSIVE MissingLoop(_, _, _)
MissingLoop(d, last, existing) ==
    IF d > last THEN <<>>
    ELSE (IF d \in existing THEN <<>> ELSE <<d>>)
         \o MissingLoop(d + 1, last, existing)

\* variant: an unreadable date counts as date.min, as in _sort_records
compute_missing_dates_min(recs) ==
    IF recs = <<>> THEN <<>>
    ELSE LET dates == {recs[i].Date : i \in 1..Len(recs)}
         IN  MissingLoop(SetMin(dates), SetMax(dates), dates)

compute_missing_dates(recs) ==
    IF recs = <<>> THEN <<>>
    ELSE LET dates == {recs[i].Date : i \in {j \in 1..Len(recs) : DateOk(recs[j].Date)}}
         IN  IF dates = {} THEN <<>>
             ELSE MissingLoop(SetMin(dates), SetMax(dates), dates)

\* what _update_dashboard derives from the records
DashboardOf(recs) ==
    LET last == DashDatesLoop(recs, 1, NoDate, NoDate)
        balance == DashBalance(recs)
    IN  [balance |-> balance,
         watering |-> IF balance <= 0 THEN "YES" ELSE "No",
         last_watering_date |-> last.watering,
         last_rain_date |-> last.rain,
         missing |-> compute_missing_dates(recs)]

\* records' is set by the handler before this is reached
update_dashboard(et, ep) ==
    /\ settings' = [threshold_mm |-> DashThreshold(et),
                    period_days |-> DashPeriod(ep)]
    /\ entry_threshold' = DashThresholdEntry(et)
    /\ entry_period' = DashPeriodEntry(ep)
    /\ dash' = DashboardOf(records')

\* ------------------------------------------------------------- inputs
\* What the user leaves in the two dashboard entries before FocusOut
SettingsInputs ==
    { <<Num(Mm(1000)), Num(7)>>,          \* "10.0", "7"
      <<Bad, Num(7)>>,                    \* "abc",  "7"
      <<Num(Mm(1000) + 105), Num(7)>>,    \* "10.006", "7"
      <<Num(Mm(1000)), Bad>>,             \* "10.0", "x"
      <<Num(Mm(-500)), Num(0)>>,          \* "-5",   "0"
      <<Num(Mm(1000)), Num(1)>> }         \* "10.0", "1"

\* What the user submits in the form: Rain_mm, BOM_mm, Notes, Watered
Form(rain_str, bom_str, notes_str, watered_flag) ==
    [rain |-> rain_str, bom |-> bom_str, notes |-> notes_str,
     watered |-> watered_flag]
FormInputs ==
    { Form(Num(Mm(500)), Blank, "", "No"),
      Form(Num(Mm(0)), Blank, "n", "No"),
      Form(Num(Mm(0)), Num(Mm(300)), "", "Yes"),
      Form(Num(Mm(-100)), Num(Mm(300)), "", "No"),
      Form(Bad, Num(Mm(300)), "", "No"),
      Form(Blank, Blank, "", "No"),
      Form(Num(Mm(-100)), Blank, "", "Yes") }
DateInputs == {Bad} \cup {Num(d) : d \in 1..(MaxDate + 1)}
\* the table's selection: Blank when no row is selected
NoSel == Blank

NoEng == [op |-> "none"]

Init ==
    /\ records = <<>>
    /\ settings = [threshold_mm |-> DefaultThreshold,
                   period_days |-> DefaultPeriod]
    /\ entry_threshold = Num(DefaultThreshold)
    /\ entry_period = Num(DefaultPeriod)
    /\ dash = DashboardOf(<<>>)
    /\ lastOp = "init"
    /\ lastDate = 0
    /\ lastOut = <<>>
    /\ repeated = FALSE
    /\ nops = 0
    /\ eng = NoEng

Step(op, d) ==
    /\ nops < MaxOps
    /\ nops' = nops + 1
    /\ lastOp' = op
    /\ lastDate' = d
    /\ repeated' = (op = lastOp /\ d = lastDate)
    /\ UNCHANGED eng

\* --------------------------------------------------------- _on_add_update
\* variant: a date after today is not refused
AddRejectedFutureOk(d_str, rain_str, bom_str) ==
    \/ ~FloatOk(d_str)
    \/ (rain_str # Blank /\ ~FloatOk(rain_str))
    \/ (bom_str # Blank /\ ~FloatOk(bom_str))
    \/ ~( (FloatOk(rain_str) /\ rain_str.v >= 0)
          \/ (FloatOk(bom_str) /\ bom_str.v >= 0) )

AddRejected(d_str, rain_str, bom_str) ==
    \/ ~FloatOk(d_str)
    \/ d_str.v > Today
    \/ (rain_str # Blank /\ ~FloatOk(rain_str))
    \/ (bom_str # Blank /\ ~FloatOk(bom_str))
    \/ ~( (FloatOk(rain_str) /\ rain_str.v >= 0)
          \/ (FloatOk(bom_str) /\ bom_str.v >= 0) )

\* moisture_today as the handler computes it before the upsert
MoistureToday(recs, d_obj, rain_str, bom_str, watered_flag, st) ==
    LET yi == FirstIndex(recs, d_obj - 1)
        prev_moisture == IF yi = 0 THEN 0 ELSE FloatOfMoisture(recs[yi].Moisture)
        eff_today == IF rain_str # Blank THEN Valid(rain_str.v)
                     ELSE IF bom_str # Blank THEN Valid(bom_str.v)
                     ELSE NoneEff
    IN  IF watered_flag = "Yes" THEN st.threshold_mm
        ELSE compute_daily_moisture(prev_moisture, eff_today, st)

\* variant: the record is appended without looking for the date
UpsertAppend(recs, d_obj, rain_str, bom_str, notes_str, watered_flag, moisture_today) ==
    Append(recs, [Date |-> d_obj, Rain_mm |-> rain_str, BOM_mm |-> bom_str,
                  Notes |-> notes_str, Watered |-> watered_flag,
                  Moisture |-> Fmt2(moisture_today)])

Upsert(recs, d_obj, rain_str, bom_str, notes_str, watered_flag, moisture_today) ==
    LET i == FirstIndex(recs, d_obj)
        new == [Date |-> d_obj, Rain_mm |-> rain_str, BOM_mm |-> bom_str,
                Notes |-> notes_str, Watered |-> watered_flag,
                Moisture |-> Fmt2(moisture_today)]
    IN  IF i # 0 THEN [recs EXCEPT ![i] = new] ELSE Append(recs, new)

on_add_update(d_str, rain_str, bom_str, notes_str, watered_flag) ==
    IF AddRejected(d_str, rain_str, bom_str)
    THEN /\ Step("rejected", 0)
         /\ lastOut' = <<>>
         /\ UNCHANGED appvars
    ELSE LET d_obj == d_str.v
             moisture_today == MoistureToday(records, d_obj, rain_str, bom_str,
                                             watered_flag, settings)
             upserted == Upsert(records, d_obj, rain_str, bom_str, notes_str,
                                watered_flag, moisture_today)
         IN  /\ Step("add", d_obj)
             /\ lastOut' = <<>>
             /\ records' = sort_records(recompute_from(upserted, d_obj, settings))
             /\ update_dashboard(entry_threshold, entry_period)

AddUpdate ==
    \E d_str \in DateInputs, f \in FormInputs :
        on_add_update(d_str, f.rain, f.bom, f.notes, f.watered)

\* ------------------------------------------------------------- _on_delete
SelectSeqByDate(recs, d) ==
    LET Keep(r) == r.Date # d IN SelectSeq(recs, Keep)

on_delete(sel) ==
    IF sel = NoSel
    THEN /\ Step("nosel", 0)
         /\ lastOut' = <<>>
         /\ UNCHANGED appvars
    ELSE /\ Step("delete", sel.v)
         /\ lastOut' = IF FirstIndex(records, sel.v) # 0 THEN <<"deleted">>
                       ELSE <<>>
         /\ records' = SelectSeqByDate(records, sel.v)
         /\ update_dashboard(entry_threshold, entry_period)

Delete == \E sel \in {NoSel} \cup {Num(d) : d \in Dates} : on_delete(sel)

\* ----------------------------- FocusOut of the threshold / period entries
SettingsChange ==
    \E e \in SettingsInputs :
        /\ Step("settings", 0)
        /\ lastOut' = <<e[1], e[2]>>          \* the texts left in the entries
        /\ UNCHANGED records
        /\ update_dashboard(e[1], e[2])

\* ----------------------------------- migrate_add_moisture.py on the log
Migrate ==
    /\ lastOp # "migrate"
    /\ Step("migrate", 0)
    /\ lastOut' = migrate(records)
    /\ UNCHANGED appvars

\* ------------------------------------------- a call of _recompute_from
RecomputeFrom ==
    \E d \in Dates :
        /\ Step("recompute", d)
        /\ lastOut' = IF FirstIndex(records, d) # 0 THEN <<"found">> ELSE <<>>
        /\ records' = recompute_from(records, d, settings)
        /\ UNCHANGED <<settings, entry_threshold, entry_period, dash>>

Next == AddUpdate \/ Delete \/ SettingsChange \/ Migrate
Spec == Init /\ [][Next]_vars

NextR == Next \/ RecomputeFrom
SpecR == Init /\ [][NextR]_vars

\* ------------------------------------- the pure functions on drawn inputs
RawInputs == {Blank, Bad, Num(Mm(0)), Num(Mm(320)), Num(Mm(500)), Num(Mm(-100))}
PrevInputs == {Mm(0), Mm(143), Mm(1000), Mm(2000)}
EngSettings ==
    {[threshold_mm |-> t, period_days |-> p] :
        t \in {Mm(1000), Mm(2000), Mm(1000) + 105}, p \in {1, 5, 7}}
EngInputs ==
    {[op |-> "in", rec |-> [Rain_mm |-> r, BOM_mm |-> b, Watered |-> w],
      prev |-> pm, st |-> st, out |-> NoneEff] :
        r \in RawInputs, b \in RawInputs, w \in {"Yes", "No"},
        pm \in PrevInputs, st \in EngSettings}

InitE ==
    /\ records = <<>>
    /\ settings = [threshold_mm |-> DefaultThreshold,
                   period_days |-> DefaultPeriod]
    /\ entry_threshold = Num(DefaultThreshold)
    /\ entry_period = Num(DefaultPeriod)
    /\ dash = DashboardOf(<<>>)
    /\ lastOp = "init"
    /\ lastDate = 0
    /\ lastOut = <<>>
    /\ repeated = FALSE
    /\ nops = 0
    /\ eng \in EngInputs

EngStep(op, out) ==
    /\ eng.op = "in"
    /\ eng' = [eng EXCEPT !.op = op, !.out = out]
    /\ UNCHANGED <<records, settings, entry_threshold, entry_period, dash,
                   lastOp, lastDate, lastOut, repeated, nops>>

\* _effective_mm(rec)
EngEffective == EngStep("eff", effective_mm(eng.rec))

\* the moisture one iteration of _recompute_from's walk computes
EngWalk == EngStep("walk", Valid(WalkMoisture(eng.rec, eng.prev, eng.st)))

\* the moisture one iteration of migrate computes
EngMigrate == EngStep("mig", Valid(MigMoisture(eng.rec, eng.prev)))

NextE == EngEffective \/ EngWalk \/ EngMigrate
SpecE == InitE /\ [][NextE]_vars

\* ------------------------------ the functions of a store, on drawn logs
MaxStoreDate == 4

\* the rows a log, as loaded and sorted by date, can hold for one day
LogRow(d, rain_str, bom_str, watered_flag) ==
    [Date |-> d, Rain_mm |-> rain_str, BOM_mm |-> bom_str, Notes |-> "",
     Watered |-> watered_flag, Moisture |-> 0]
LogRows(d) ==
    { LogRow(d, Num(Mm(500)), Blank, "No"),
      LogRow(d, Num(Mm(0)), Blank, "No"),
      LogRow(d, Blank, Blank, "No"),
      LogRow(d, Num(Mm(0)), Num(Mm(300)), "Yes"),
      LogRow(d, Bad, Num(Mm(-100)), "Yes"),
      LogRow(d, Num(Mm(-100)), Num(Mm(320)), "No") }

\* the logs over days 1..n, with or without a first row of unreadable date
RECURSIVE Logs(_)
Logs(n) ==
    IF n = 0 THEN {<<>>, <<LogRow(BadDate, Num(Mm(500)), Blank, "Yes")>>}
    ELSE Logs(n - 1)
         \cup {Append(s, r) : s \in Logs(n - 1), r \in LogRows(n)}

InitP ==
    /\ records = <<>>
    /\ settings = [threshold_mm |-> DefaultThreshold,
                   period_days |-> DefaultPeriod]
    /\ entry_threshold = Num(DefaultThreshold)
    /\ entry_period = Num(DefaultPeriod)
    /\ dash = DashboardOf(<<>>)
    /\ lastOp = "init"
    /\ lastDate = 0
    /\ lastOut = <<>>
    /\ repeated = FALSE
    /\ nops = 0
    /\ eng \in {[op |-> "in", recs |-> s, out |-> <<>>] : s \in Logs(MaxStoreDate)}

\* migrate(records) next to _recompute_from started at the first record,
\* with the settings the tool is written for; strptime in the tool raises
\* on an unreadable date
EngCompare ==
    /\ eng.recs # <<>>
    /\ \A i \in 1..Len(eng.recs) : DateOk(eng.recs[i].Date)
    /\ EngStep("compare",
               [mig |-> migrate(eng.recs),
                cold |-> recompute_from(eng.recs, eng.recs[1].Date,
                                        [threshold_mm |-> DefaultThreshold,
                                         period_days |-> DefaultPeriod])])

\* what _update_dashboard derives from the log
EngDashboard == EngStep("dash", DashboardOf(eng.recs))

NextP == EngCompare \/ EngDashboard
SpecP == InitP /\ [][NextP]_vars

\* ------------------------------------------- a restart of the application
\* _load_data: the rows of the data file, appended in file order, then sorted
load_data(rows) == sort_records(rows)

Reverse(s) == [i \in 1..Len(s) |-> s[Len(s) + 1 - i]]

\* the data file at a restart: the rows as _save_data wrote them, or the
\* same rows in reverse order
FileRows(recs) == {recs, Reverse(recs)}

\* __init__: load_settings reads back what the dashboard saved, _load_data
\* reads the data file, the entries are filled from the settings and
\* _update_dashboard runs
Load ==
    \E rows \in FileRows(records) :
        /\ Step("load", 0)
        /\ lastOut' = rows
        /\ records' = load_data(rows)
        /\ update_dashboard(Num(settings.threshold_mm), Num(settings.period_days))

NextL == Next \/ Load
SpecL == Init /\ [][NextL]_vars

\* ------------------------------------------------- reference definitions
Abs(x) == IF x < 0 THEN 0 - x ELSE x

\* the record's date-order predecessor's stored moisture as a float, 0 for
\* the first record
PredMoisture(recs, i) ==
    IF i = 1 THEN 0 ELSE FloatOfMoisture(recs[i - 1].Moisture)

\* the float a walk started at index s holds for record i >= s
RECURSIVE WalkValue(_, _, _, _)
WalkValue(recs, s, i, st) ==
    WalkMoisture(recs[i],
                 IF i = s THEN PredMoisture(recs, s)
                 ELSE WalkValue(recs, s, i - 1, st),
                 st)

\* the stored form of compute(stored moisture of the predecessor, ...)
ChainValue(recs, i, st) == Fmt2(WalkMoisture(recs[i], PredMoisture(recs, i), st))

\* index of the first record dated after d, 0 if none
SuccessorIndex(recs, d) ==
    IF \E i \in 1..Len(recs) : recs[i].Date > d
    THEN CHOOSE i \in 1..Len(recs) :
            /\ recs[i].Date > d
            /\ \A j \in 1..(i - 1) : recs[j].Date <= d
    ELSE 0

RecomputeFound == lastOp = "recompute" /\ lastOut = <<"found">>

\* ------------------------------------------------------------------ C1
\* C1 as stated: after _recompute_from(D) for a date D in the store, every
\* record at or after D stores compute(stored moisture of its predecessor,
\* or 0 for the first record; its effective rainfall; its watered flag).
C1_ChainFromStored ==
    RecomputeFound =>
        \A i \in FirstIndex(records, lastDate)..Len(records) :
            records[i].Moisture = ChainValue(records, i, settings)

\* C1 amended: after _recompute_from(D) for a date D in the store, every
\* record at or after D stores the two-digit rounding of the walk's value:
\* for the record at D computed from the stored moisture of its predecessor
\* (0 for the first record), for each later record from the unrounded value
\* of the record before it; no record at or after D is skipped.
C1_WalkReachesEnd ==
    RecomputeFound =>
        LET s == FirstIndex(records, lastDate)
        IN  \A i \in s..Len(records) :
                records[i].Moisture = Fmt2(WalkValue(records, s, i, settings))

\* a recompute started at the second of three records
C1_Witness ==
    /\ RecomputeFound
    /\ Len(records) = 3
    /\ FirstIndex(records, lastDate) = 2
    /\ records[3].Moisture > 0

\* ------------------------------------------------------------------ C2
\* C2: after a settings change every record's stored moisture is the value
\* of a recompute from the beginning with the new settings.
C2_SettingsRecomputed ==
    lastOp = "settings" =>
        \A i \in 1..Len(records) :
            records[i].Moisture = Fmt2(WalkValue(records, 1, i, settings))

\* ------------------------------------------------------------------ C3
\* C3: after a delete of an existing record, the successor of the deleted
\* record and every later record store the value of a recompute started at
\* the successor, i.e. from its new predecessor's stored moisture.
C3_DeleteRecomputed ==
    (lastOp = "delete" /\ lastOut = <<"deleted">>) =>
        LET s == SuccessorIndex(records, lastDate)
        IN  s # 0 =>
              \A i \in s..Len(records) :
                  records[i].Moisture = Fmt2(WalkValue(records, s, i, settings))

\* ------------------------------------------------------------------ C4
\* C4: in every reachable state every stored moisture m satisfies
\* 0 <= m <= threshold (compared at the two digits moisture is stored
\* with, the reading most favourable to the claim).
C4_MoistureInRange ==
    \A i \in 1..Len(records) :
        /\ 0 <= records[i].Moisture
        /\ records[i].Moisture <= Fmt2(settings.threshold_mm)

\* ------------------------------------------------------------------ C5
\* C5: for positive threshold and period, prevMoisture >= 0 and any raw
\* rainfall fields and watered flag, the moisture computed for a day by the
\* walk lies in [0, threshold], and by the migration tool in [0, THRESHOLD].
C5_ComputedInRange ==
    /\ eng.op = "walk" => (0 <= eng.out.v /\ eng.out.v <= eng.st.threshold_mm)
    /\ eng.op = "mig" => (0 <= eng.out.v /\ eng.out.v <= MigThreshold)

\* a dry day on which rain lifts the decayed moisture over the threshold
C5_Witness ==
    /\ eng.op = "walk"
    /\ eng.rec.Watered = "No"
    /\ effective_mm(eng.rec).ok
    /\ eng.prev - eng.st.threshold_mm \div eng.st.period_days
           + effective_mm(eng.rec).v > eng.st.threshold_mm
    /\ eng.out.v = eng.st.threshold_mm

\* ------------------------------------------------------------------ C6
\* C6 as stated: a watered record's moisture written by the walk is
\* exactly threshold, and written by the migration tool exactly THRESHOLD.
C6_WateredExactlyThreshold ==
    /\ RecomputeFound =>
          \A i \in FirstIndex(records, lastDate)..Len(records) :
              records[i].Watered = "Yes" =>
                  FloatOfMoisture(records[i].Moisture) = settings.threshold_mm
    /\ lastOp = "migrate" =>
          \A i \in 1..Len(lastOut) :
              lastOut[i].Watered = "Yes" =>
                  FloatOfMoisture(lastOut[i].Moisture) = MigThreshold

\* C6 amended: a watered record's moisture written by the walk is threshold
\* rounded to two fractional digits, whatever the previous record's
\* moisture and the record's rainfall; written by the migration tool it is
\* THRESHOLD = 10.00.
C6_WateredRoundedThreshold ==
    /\ RecomputeFound =>
          \A i \in FirstIndex(records, lastDate)..Len(records) :
              records[i].Watered = "Yes" =>
                  records[i].Moisture = Fmt2(settings.threshold_mm)
    /\ lastOp = "migrate" =>
          \A i \in 1..Len(lastOut) :
              lastOut[i].Watered = "Yes" =>
                  lastOut[i].Moisture = Fmt2(MigThreshold)

\* a recompute over a watered record that follows a record with moisture
\* below the threshold
C6_Witness ==
    /\ RecomputeFound
    /\ \E i \in FirstIndex(records, lastDate)..Len(records) :
          /\ i > 1
          /\ records[i].Watered = "Yes"
          /\ records[i - 1].Moisture < Fmt2(settings.threshold_mm)

\* ------------------------------------------------------------------ C7
\* every record stores compute(stored moisture of its predecessor, ...)
ChainExact(recs, st) ==
    \A i \in 1..Len(recs) : recs[i].Moisture = ChainValue(recs, i, st)

\* ... to within 0.01, the step of the stored two digits
ChainNear(recs, st) ==
    \A i \in 1..Len(recs) : Abs(recs[i].Moisture - ChainValue(recs, i, st)) <= 1

\* C7 as stated: an add/update on a store that satisfies the chain
\* invariant leaves a store that satisfies it.
C7_AddKeepsExactChain ==
    [][(lastOp' = "add" /\ ChainExact(records, settings))
           => ChainExact(records', settings')]_vars

\* C7 amended: if every record's moisture is within 0.01 of the value
\* computed from the stored moisture of its predecessor in date order (0 if
\* none) before an add/update for date D, the same holds after it, and the
\* record for D stores exactly that value, also when D is inserted in the
\* middle of the store or D-1 has no record.
C7_AddKeepsChain ==
    [][(lastOp' = "add" /\ ChainNear(records, settings))
           => /\ ChainNear(records', settings')
              /\ LET i == FirstIndex(records', lastDate')
                 IN  /\ i # 0
                     /\ records'[i].Moisture = ChainValue(records', i, settings')]_vars

\* an add of date 3 to a store without date 2, whose moisture comes from
\* the record of date 1 and not from an absent yesterday
C7_Witness ==
    /\ lastOp = "add"
    /\ lastDate = 3
    /\ Len(records) = 2
    /\ records[1].Date = 1
    /\ records[2].Date = 3
    /\ records[2].Watered = "No"
    /\ ChainNear(records, settings)
    /\ records[2].Moisture
         # Fmt2(compute_daily_moisture(0, effective_mm(records[2]), settings))

\* ------------------------------------------------------------------ C8
SameButMoisture(r, q) ==
    /\ r.Date = q.Date
    /\ r.Rain_mm = q.Rain_mm
    /\ r.BOM_mm = q.BOM_mm
    /\ r.Watered = q.Watered
    /\ r.Notes = q.Notes

\* C8: _recompute_from(D) adds and removes no record, changes no field but
\* moisture, and leaves the moisture of every record before D as it was.
C8_RecomputeFrame ==
    [][lastOp' = "recompute" =>
          /\ Len(records') = Len(records)
          /\ \A i \in 1..Len(records) :
                /\ SameButMoisture(records[i], records'[i])
                /\ records[i].Date < lastDate' =>
                      records'[i].Moisture = records[i].Moisture]_vars

\* a recompute from a later date that left a stale first record stale
C8_Witness ==
    /\ RecomputeFound
    /\ FirstIndex(records, lastDate) > 1
    /\ records[1].Notes = "n"
    /\ records[1].Moisture # ChainValue(records, 1, settings)

\* ------------------------------------------------------------------ C9
\* C9: a second _recompute_from(D) right after the first changes no stored
\* moisture.
C9_RecomputeIdempotent ==
    [][(RecomputeFound /\ lastOp' = "recompute" /\ lastDate' = lastDate)
           => records' = records]_vars

\* the second of two recomputes from the same date, over two records
C9_Witness ==
    /\ RecomputeFound
    /\ repeated
    /\ Len(records) >= 2
    /\ FirstIndex(records, lastDate) < Len(records)
    /\ records[Len(records)].Moisture > 0

\* ----------------------------------------------------------------- C10
NonNegNumber(s) == s.k = "num" /\ s.v >= 0

\* C10: the effective rainfall is Valid(rainUser) if rainUser is a number
\* >= 0, else Valid(rainOfficial) if that is a number >= 0, else Unknown.
C10_EffectivePolicy ==
    eng.op = "eff" =>
        /\ NonNegNumber(eng.rec.Rain_mm) =>
              (eng.out.ok /\ eng.out.v = eng.rec.Rain_mm.v)
        /\ (~NonNegNumber(eng.rec.Rain_mm) /\ NonNegNumber(eng.rec.BOM_mm)) =>
              (eng.out.ok /\ eng.out.v = eng.rec.BOM_mm.v)
        /\ (~NonNegNumber(eng.rec.Rain_mm) /\ ~NonNegNumber(eng.rec.BOM_mm)) =>
              ~eng.out.ok

\* a negative rainUser next to a valid rainOfficial
C10_Witness ==
    /\ eng.op = "eff"
    /\ eng.rec.Rain_mm.k = "num"
    /\ eng.rec.Rain_mm.v < 0
    /\ eng.rec.BOM_mm.k = "num"
    /\ eng.rec.BOM_mm.v > 0
    /\ eng.out = Valid(eng.rec.BOM_mm.v)

\* ----------------------------------------------------------------- C11
UniqueDates(recs) ==
    \A i, j \in 1..Len(recs) : recs[i].Date = recs[j].Date => i = j

DateSet(recs) == {recs[i].Date : i \in 1..Len(recs)}

\* C11: no operation leaves two records with one date; an add/update for
\* a date in the store keeps the number of records, the record's place and
\* every other record's fields, and for a new date adds exactly one record.
C11_UniqueDates ==
    [][/\ UniqueDates(records')
       /\ lastOp' = "add" =>
            IF lastDate' \in DateSet(records)
            THEN /\ Len(records') = Len(records)
                 /\ \A i \in 1..Len(records) :
                       /\ records'[i].Date = records[i].Date
                       /\ records[i].Date # lastDate' =>
                             SameButMoisture(records[i], records'[i])
            ELSE /\ Len(records') = Len(records) + 1
                 /\ DateSet(records') = DateSet(records) \cup {lastDate'}
       /\ lastOp' = "delete" =>
            DateSet(records') = DateSet(records) \ {lastDate'}]_vars

\* the second of two add/updates for one date, in a store of two records
C11_Witness ==
    /\ lastOp = "add"
    /\ repeated
    /\ Len(records) = 2
    /\ UniqueDates(records)

\* ----------------------------------------------------------------- C12
\* C12: for one date-sorted log and the settings threshold 10, period 7,
\* migrate writes for every record the moisture that _recompute_from writes
\* when started at the first record.
C12_MigrateIsColdRecompute ==
    eng.op = "compare" =>
        /\ Len(eng.out.mig) = Len(eng.out.cold)
        /\ \A i \in 1..Len(eng.recs) :
              eng.out.mig[i].Moisture = eng.out.cold[i].Moisture

\* a log with a day of unknown rainfall, a watered day and a last day
\* that is neither dry nor full
C12_Witness ==
    /\ eng.op = "compare"
    /\ Len(eng.recs) = 4
    /\ \E i \in 1..Len(eng.recs) : ~effective_mm(eng.recs[i]).ok
    /\ \E i \in 1..Len(eng.recs) : eng.recs[i].Watered = "Yes"
    /\ eng.out.mig[4].Moisture > 0
    /\ eng.out.mig[4].Moisture < Fmt2(MigThreshold)

\* ----------------------------------------------------------------- C13
\* the record of the greatest date
ChronoLast(recs) ==
    CHOOSE r \in {recs[i] : i \in 1..Len(recs)} :
        \A i \in 1..Len(recs) : recs[i].Date <= r.Date

\* C13: after any sequence of add/update and delete the dashboard's
\* currentMoisture is the stored moisture of the chronologically last
\* record, 0 for an empty store, and watering is needed iff it is <= 0.
C13_DashboardMoisture ==
    /\ dash.balance = IF records = <<>> THEN 0
                      ELSE FloatOfMoisture(ChronoLast(records).Moisture)
    /\ dash.watering = "YES" <=> dash.balance <= 0

\* three records, the first moist and the last dried out
C13_Witness ==
    /\ lastOp = "add"
    /\ Len(records) = 3
    /\ records[1].Moisture > 0
    /\ records[3].Moisture = 0
    /\ dash.balance = 0
    /\ dash.watering = "YES"

\* ----------------------------------------------------------------- C14
\* the dates of the records whose date can be read
RecordedDates(recs) ==
    {recs[i].Date : i \in {j \in 1..Len(recs) : recs[j].Date # BadDate}}

\* C14: the gap detector returns, in ascending order, exactly the dates
\* strictly between the least and the greatest recorded date that have no
\* record, and nothing for an empty store or a store of one date.
C14_GapsExact ==
    eng.op = "dash" =>
        LET D == RecordedDates(eng.recs)
            m == eng.out.missing
        IN  /\ \A i, j \in 1..Len(m) : i < j => m[i] < m[j]
            /\ \A d \in 0..(MaxStoreDate + 1) :
                  (\E i \in 1..Len(m) : m[i] = d)
                  <=> /\ d \notin D
                      /\ \E lo, hi \in D : lo < d /\ d < hi
            /\ Cardinality(D) <= 1 => m = <<>>

\* records on days 1 and 4 only: days 2 and 3 are missing
C14_Witness ==
    /\ eng.op = "dash"
    /\ RecordedDates(eng.recs) = {1, 4}
    /\ eng.out.missing = <<2, 3>>

\* ----------------------------------------------------------------- C15
\* C15: _recompute_from with a date that has no record, and a delete of a
\* date that has no record, add, remove and change no record.
C15_AbsentDateNoOp ==
    [][((lastOp' = "recompute" \/ lastOp' = "delete")
            /\ lastDate' \notin DateSet(records))
           => records' = records]_vars

\* a recompute for an absent date on a store a recompute would change
C15_Witness ==
    /\ lastOp = "recompute"
    /\ lastOut = <<>>
    /\ lastDate \notin DateSet(records)
    /\ Len(records) >= 2
    /\ \E i \in 1..Len(records) :
          records[i].Moisture # Fmt2(WalkValue(records, 1, i, settings))

\* ----------------------------------------------------------------- C16
Min2(a, b) == IF a <= b THEN a ELSE b

\* a record with watered = false and effective rainfall 0
Dry(rec) == rec.Watered = "No" /\ effective_mm(rec) = Valid(0)

DecayPerDay(st) == st.threshold_mm \div st.period_days

\* C16 as stated (for a positive threshold): over consecutive dry records
\* the walk stores moisture[i+1] = max(0, moisture[i] - decayPerDay).
C16_DecayFromStored ==
    (RecomputeFound /\ settings.threshold_mm > 0) =>
        \A i \in FirstIndex(records, lastDate)..(Len(records) - 1) :
            (Dry(records[i]) /\ Dry(records[i + 1])) =>
                records[i + 1].Moisture =
                    Fmt2(Max2(0, FloatOfMoisture(records[i].Moisture)
                                 - DecayPerDay(settings)))

\* C16 amended: over consecutive dry records visited by the walk, the
\* moisture stored for record i+1 is the two-digit rounding of
\* min(threshold, max(0, u[i] - decayPerDay)), u[i] being the walk's
\* unrounded value for record i; the stored values never increase, strictly
\* decrease while positive when decayPerDay >= 0.01, and stay at 0.
C16_DecayFromWalk ==
    RecomputeFound =>
        LET s == FirstIndex(records, lastDate)
        IN  \A i \in s..(Len(records) - 1) :
                (Dry(records[i]) /\ Dry(records[i + 1])) =>
                    /\ records[i + 1].Moisture =
                          Fmt2(Min2(settings.threshold_mm,
                                    Max2(0, WalkValue(records, s, i, settings)
                                            - DecayPerDay(settings))))
                    /\ records[i + 1].Moisture <= records[i].Moisture
                    /\ (records[i].Moisture > 0 /\ DecayPerDay(settings) >= Scale)
                          => records[i + 1].Moisture < records[i].Moisture
                    /\ records[i].Moisture = 0 => records[i + 1].Moisture = 0

\* a walk over a moist day followed by two dry days, the last still moist
C16_Witness ==
    /\ RecomputeFound
    /\ Len(records) = 3
    /\ FirstIndex(records, lastDate) = 1
    /\ Dry(records[2])
    /\ Dry(records[3])
    /\ records[3].Moisture > 0
    /\ records[3].Moisture < records[2].Moisture

\* ----------------------------------------------------------------- C17
\* C17: whenever a settings value is unparseable, the value the program
\* uses in its place is the built-in default, threshold_mm = 10.0 or
\* period_days = 7.
C17_FallbackIsDefault ==
    lastOp = "settings" =>
        /\ ~FloatOk(lastOut[1]) => settings.threshold_mm = DefaultThreshold
        /\ lastOut[2].k # "num" => settings.period_days = DefaultPeriod

\* ----------------------------------------------------------------- C18
\* the readable dates of the watered records and of the rain records
WateredDates(recs) ==
    {recs[i].Date : i \in {j \in 1..Len(recs) :
        DateOk(recs[j].Date) /\ recs[j].Watered = "Yes"}}
RainDates(recs) ==
    {recs[i].Date : i \in {j \in 1..Len(recs) :
        /\ DateOk(recs[j].Date)
        /\ effective_mm(recs[j]) # NoneEff
        /\ effective_mm(recs[j]).v > 0}}
MaxDateOf(S) == IF S = {} THEN NoDate ELSE SomeDate(SetMax(S))

\* C18: lastWateredDate is the maximum date among the records with
\* watered = true, lastRainDate the maximum date among the records whose
\* effective rainfall is Valid and > 0, each none when there is no such
\* record; an Unknown or Valid(0) record never sets lastRainDate.
C18_LastDates ==
    eng.op = "dash" =>
        /\ eng.out.last_watering_date = MaxDateOf(WateredDates(eng.recs))
        /\ eng.out.last_rain_date = MaxDateOf(RainDates(eng.recs))

\* rain on day 1, then a watered Valid(0) day, then an Unknown day
C18_Witness ==
    /\ eng.op = "dash"
    /\ Len(eng.recs) = 3
    /\ effective_mm(eng.recs[1]) = Valid(Mm(500))
    /\ effective_mm(eng.recs[2]) = Valid(0)
    /\ eng.recs[2].Watered = "Yes"
    /\ effective_mm(eng.recs[3]) = NoneEff
    /\ eng.out.last_rain_date = SomeDate(eng.recs[1].Date)
    /\ eng.out.last_watering_date = SomeDate(eng.recs[2].Date)

\* ----------------------------------------------------------------- C19
\* C19: after any sequence of dashboard settings updates the stored
\* settings hold threshold_mm > 0 and period_days >= 1.
C19_SettingsPositive ==
    /\ settings.threshold_mm > 0
    /\ settings.period_days >= 1

\* ----------------------------------------------------------------- C20
\* C20, for a period of one day: from any store state, after one record
\* with watered = false and effective rainfall 0 is appended after the last
\* record by add/update, the last record's moisture is 0 and the dashboard
\* reports that watering is needed.
C20_DryPeriodEmpties ==
    [][(/\ lastOp' = "add"
        /\ settings.period_days = 1
        /\ \A i \in 1..Len(records) : records[i].Date < lastDate'
        /\ Dry(records'[Len(records')]))
           => /\ records'[Len(records')].Moisture = 0
              /\ dash'.watering = "YES"]_vars

\* ----------------------------------------------------------------- C21
\* every stored moisture is what one recompute from the first record writes
ColdRecomputed(recs, st) ==
    \A i \in 1..Len(recs) : recs[i].Moisture = Fmt2(WalkValue(recs, 1, i, st))

\* the step is _recompute_from(D) for a date D of a later record
RecomputeFromLater ==
    /\ lastOp' = "recompute"
    /\ FirstIndex(records, lastDate') > 1

\* C21 as stated: on a store whose moisture values were all produced by one
\* recompute from the first record, _recompute_from from any later date D
\* changes no stored moisture value.
C21_StartPointIndependent ==
    [][(RecomputeFromLater /\ ColdRecomputed(records, settings))
           => records' = records]_vars

\* C21 amended: on such a store, _recompute_from from a later date D leaves
\* the records before D as they were and changes no stored moisture at or
\* after D by more than 0.01.
C21_StartPointNear ==
    [][(RecomputeFromLater /\ ColdRecomputed(records, settings))
           => /\ Len(records') = Len(records)
              /\ \A i \in 1..Len(records) :
                    /\ SameButMoisture(records'[i], records[i])
                    /\ Abs(records'[i].Moisture - records[i].Moisture) <= 1
                    /\ i < FirstIndex(records, lastDate')
                          => records'[i].Moisture = records[i].Moisture]_vars

\* after a recompute from the third record: the first two records hold the
\* values of a recompute from the first record, the third is 0.01 off
C21_Witness ==
    /\ RecomputeFound
    /\ Len(records) = 3
    /\ FirstIndex(records, lastDate) = 3
    /\ \A i \in 1..2 : records[i].Moisture = Fmt2(WalkValue(records, 1, i, settings))
    /\ Abs(records[3].Moisture - Fmt2(WalkValue(records, 1, 3, settings))) = 1

\* ----------------------------------------------------------------- C22
Ascending(recs) ==
    \A i \in 1..(Len(recs) - 1) : recs[i].Date <= recs[i + 1].Date

\* the position in recs of the record with the date of r
PositionIn(recs, r) == FirstIndex(recs, r.Date)

\* C22: after every completed operation (load, add/update, delete) the
\* record list is in ascending date order, so its last element is the
\* chronologically last record and the element before index i has the
\* latest date before that of record i; delete keeps the order of the
\* remaining records.
C22_SortedAfterEveryOp ==
    /\ [](/\ Ascending(records)
          /\ records # <<>> =>
                \A i \in 1..Len(records) :
                    records[i].Date <= records[Len(records)].Date
          /\ \A i \in 2..Len(records) :
                \A j \in 1..Len(records) :
                    records[j].Date < records[i].Date
                        => records[j].Date <= records[i - 1].Date)
    /\ [][lastOp' = "delete" =>
            \A i \in 1..Len(records') : \A j \in 1..Len(records') :
                i < j => /\ PositionIn(records, records'[i]) # 0
                         /\ PositionIn(records, records'[i])
                                < PositionIn(records, records'[j])]_vars

\* a restart that reads a data file of three rows with the latest first
C22_Witness ==
    /\ lastOp = "load"
    /\ Len(lastOut) = 3
    /\ lastOut[1].Date > lastOut[2].Date
    /\ lastOut[2].Date > lastOut[3].Date
    /\ Len(records) = 3
    /\ records[1].Date < records[2].Date
    /\ records[2].Date < records[3].Date

\* ----------------------------------------------------------------- C23
\* the submissions C23 lists: unparseable date, date after today, a
\* non-blank rainfall field that is not a number, or neither rainfall field
\* a number >= 0
ListedAsRejected(d_str, f) ==
    \/ d_str.k # "num"
    \/ d_str.v > Today
    \/ f.rain.k = "bad"
    \/ f.bom.k = "bad"
    \/ ~(NonNegNumber(f.rain) \/ NonNegNumber(f.bom))

\* the form of the submission that a step of add/update has just stored
SubmittedForm ==
    LET r == records'[FirstIndex(records', lastDate')]
    IN  Form(r.Rain_mm, r.BOM_mm, r.Notes, r.Watered)

\* C23: an add/update submission that is rejected (unparseable date, date
\* after today, a non-blank rainfall field that is not a number, or neither
\* rainfall field a number >= 0) leaves the store unchanged: no record is
\* added, modified or recomputed. A step that ends in a rejection leaves
\* the store as it was, and no step that stores a record comes from a
\* submission of that list.
C23_RejectedLeavesStore ==
    [][/\ lastOp' = "rejected" =>
             /\ records' = records
             /\ dash' = dash
             /\ settings' = settings
       /\ lastOp' = "add" => ~ListedAsRejected(Num(lastDate'), SubmittedForm)]_vars

\* a rejected submission on a store that holds a moist record
C23_Witness ==
    /\ lastOp = "rejected"
    /\ Len(records) >= 2
    /\ \E i \in 1..Len(records) : records[i].Moisture > 0

TypeOK == /\ nops \in 0..MaxOps
          /\ \A i \in 1..Len(records) : records[i].Date \in Dates
====
